---- MODULE Spec2Model ----
(***************************************************************************)
(* Model of the instrumented Mutex of src/mutex.rs.                        *)
(*                                                                         *)
(* A Mutex<T> (the Handle) owns a `key`, a `poisoned` flag and the         *)
(* protected value `inner`.  Every lock(), try_lock() and                  *)
(* MutexGuard::drop() takes the LockManager's internal lock                *)
(* (`manager.write_lock()`), works on the table entry `guard.locks[key]`,  *)
(* and releases the internal lock when the local `guard` goes out of       *)
(* scope.  Each thread is a process whose position in the function it is   *)
(* executing is pc[t]; arg[t] is the Mutex the call is on.                 *)
(*                                                                         *)
(* crate::lock_manager is not part of the sources at hand: its table       *)
(* operations (create_lock, write_lock, try_write_lock, subscribe_write,   *)
(* unlock, analyse) are modelled from the design document.                 *)
(***************************************************************************)
EXTENDS Integers, FiniteSets, Sequences, TLC

\* ---------------------------------------------------------------- bounds
NumThreads == 2          \* threads of the process
MaxMutexes == 2          \* Mutex values alive at the same time
MaxKeys    == 3          \* identities the LockManager can hand out
MaxNew     == 1          \* calls of Mutex::new in the general program
MaxCycles  == 2          \* increment cycles per thread in the workload

\* Duration::from_secs(1), in seconds
timeout == 1

Threads  == 1..NumThreads
Mutexes  == 1..MaxMutexes
Keys     == 1..MaxKeys
NoKey    == 0
NoThread == 0
NoMutex  == 0
NoRet    == [op |-> "none"]

VARIABLES
    next_key,    \* LockManager: the next identity create_lock hands out
    locks,       \* LockManager: key -> [status, waiters]
    manager,     \* LockManager: holder of the internal lock, or NoThread
    live,        \* the Mutex values that exist
    key,         \* Mutex.key
    poisoned,    \* Mutex.poisoned
    inner,       \* Mutex.inner (the protected value)
    guards,      \* guards[t][m]: number of MutexGuards of m that t holds
    pc,          \* position of each thread
    arg,         \* the Mutex the thread's current call is on
    elapsed,     \* Instant::now().duration_since(start), saturated
    analysed,    \* whether the current lock() call has invoked analyse
    panicking,   \* std::thread::panicking(), per thread
    ret,         \* the return made by the last step, NoRet if it made none
    tmp,         \* workload: the value read through the guard
    wpc,         \* workload: position inside one increment cycle
    cycles       \* workload: completed increment cycles

mvars == <<next_key, locks, manager>>
hvars == <<live, key, poisoned, inner>>
wvars == <<tmp, wpc, cycles>>
vars  == <<next_key, locks, manager, live, key, poisoned, inner, guards, pc,
           arg, elapsed, analysed, panicking, ret, tmp, wpc, cycles>>

\* ------------------------------------------------- LockManager table entry
FreeLock == [status |-> "Free", waiters |-> {}]

\* whether the Free -> Held transition succeeds: iff the status was Free
try_write_lock_ok(l) == l.status = "Free"

\* the entry after the attempt
try_write_lock(l) == IF l.status = "Free" THEN [l EXCEPT !.status = "Held"] ELSE l

subscribe_write(l, t) == [l EXCEPT !.waiters = @ \cup {t}]

unlock(l) == [l EXCEPT !.status = "Free", !.waiters = {}]

create_lock_reuse == Cardinality(live) + 1

\* the identity create_lock hands out: fresh, never yet used
create_lock == next_key

\* ------------------------------------------------------------------ helpers
LockPcs == {"lock_wl", "lock_try", "lock_yield"}
TryPcs  == {"try_wl", "try_try"}
DropPcs == {"drop_wl", "drop_unlock", "drop_poison"}
OwnPcs  == {"get_mut", "into_inner"}

RECURSIVE SumGuards(_, _)
SumGuards(S, m) == IF S = {} THEN 0
                   ELSE LET t == CHOOSE x \in S : TRUE
                        IN guards[t][m] + SumGuards(S \ {t}, m)

\* the number of MutexGuards of m that exist
GuardCount(m) == SumGuards(Threads, m)

\* `&mut self` and `self`: no guard and no other call borrows the Mutex
Unborrowed(m) == /\ \A t \in Threads : guards[t][m] = 0
                 /\ \A t \in Threads : arg[t] # m

\* `&self`: no call holds the Mutex by `&mut self` or by value
Shareable(m) == \A t \in Threads : ~(arg[t] = m /\ pc[t] \in OwnPcs)

PoisonAlwaysOk(m) == "Ok"

\* LockResult: Err(PoisonError::new(x)) if self.poisoned, else Ok(x)
PoisonResult(m) == IF poisoned[m] THEN "Poisoned" ELSE "Ok"

GuardUnlessPoisoned(t, m) == IF poisoned[m] THEN guards ELSE [guards EXCEPT ![t][m] = @ + 1]

\* MutexGuard { inner: .. }: one more guard of m, held by t
returned_guard(t, m) == [guards EXCEPT ![t][m] = @ + 1]

TypeOK ==
    /\ next_key \in 1..(MaxKeys + 1)
    /\ locks \in [Keys -> [status : {"Free", "Held"}, waiters : SUBSET Threads]]
    /\ manager \in Threads \cup {NoThread}
    /\ live \subseteq Mutexes
    /\ key \in [Mutexes -> Keys \cup {NoKey}]
    /\ poisoned \in [Mutexes -> BOOLEAN]
    /\ inner \in [Mutexes -> Nat]
    /\ guards \in [Threads -> [Mutexes -> Nat]]
    /\ pc \in [Threads -> {"idle"} \cup LockPcs \cup TryPcs \cup DropPcs \cup OwnPcs]
    /\ arg \in [Threads -> Mutexes \cup {NoMutex}]
    /\ elapsed \in [Threads -> 0..(timeout + 1)]
    /\ analysed \in [Threads -> BOOLEAN]
    /\ panicking \in [Threads -> BOOLEAN]
    /\ ret \in {NoRet} \cup [t : Threads, op : {"lock", "try_lock", "get_mut", "into_inner", "is_poisoned"},
                          m : Mutexes, val : {"Ok", "Poisoned", "WouldBlock", "true", "false"}]

\* no Mutex exists yet
Init ==
    /\ next_key = 1
    /\ locks = [k \in Keys |-> FreeLock]
    /\ manager = NoThread
    /\ live = {}
    /\ key = [m \in Mutexes |-> NoKey]
    /\ poisoned = [m \in Mutexes |-> FALSE]
    /\ inner = [m \in Mutexes |-> 0]
    /\ guards = [t \in Threads |-> [m \in Mutexes |-> 0]]
    /\ pc = [t \in Threads |-> "idle"]
    /\ arg = [t \in Threads |-> NoMutex]
    /\ elapsed = [t \in Threads |-> 0]
    /\ analysed = [t \in Threads |-> FALSE]
    /\ panicking = [t \in Threads |-> FALSE]
    /\ ret = NoRet
    /\ tmp = [t \in Threads |-> 0]
    /\ wpc = [t \in Threads |-> "read"]
    /\ cycles = [t \in Threads |-> 0]

\* the call `op` of thread t on Mutex m returns val
Return(t, op, m, val) == [t |-> t, op |-> op, m |-> m, val |-> val]

\* a thread that may start a new call
Ready(t) == pc[t] = "idle" /\ ~panicking[t]

NewKeyNotStored(t, m) ==
    /\ Ready(t)
    /\ m \notin live
    /\ \A n \in Mutexes : n < m => n \in live
    /\ next_key <= MaxKeys
    /\ manager = NoThread
    /\ LET k == create_lock IN
         /\ next_key' = next_key + 1
         /\ locks' = [locks EXCEPT ![k] = FreeLock]
         /\ key' = [key EXCEPT ![m] = 1]
    /\ live' = live \cup {m}
    /\ poisoned' = [poisoned EXCEPT ![m] = FALSE]
    /\ inner' = [inner EXCEPT ![m] = 0]
    /\ ret' = NoRet
    /\ UNCHANGED <<manager, guards, pc, arg, elapsed, analysed, panicking>>
    /\ UNCHANGED wvars

\* ------------------------------------------------------------- Mutex::new
\* create_lock allocates the identity and inserts a Free entry under the
\* manager's internal lock; the new Mutex value is m.
New(t, m) ==
    /\ Ready(t)
    /\ m \notin live
    /\ \A n \in Mutexes : n < m => n \in live
    /\ next_key <= MaxKeys
    /\ manager = NoThread
    /\ LET k == create_lock IN
         /\ next_key' = next_key + 1
         /\ locks' = [locks EXCEPT ![k] = FreeLock]
         /\ key' = [key EXCEPT ![m] = k]
    /\ live' = live \cup {m}
    /\ poisoned' = [poisoned EXCEPT ![m] = FALSE]
    /\ inner' = [inner EXCEPT ![m] = 0]
    /\ ret' = NoRet
    /\ UNCHANGED <<manager, guards, pc, arg, elapsed, analysed, panicking>>
    /\ UNCHANGED wvars

\* Mutex::new as far as the general program calls it
NewInProgram(t, m) == next_key <= MaxNew /\ New(t, m)

\* the Mutex value is gone (there is no Drop for Mutex: its table entry stays)
Destroyed(m) ==
    /\ live' = live \ {m}
    /\ key' = [key EXCEPT ![m] = NoKey]
    /\ poisoned' = [poisoned EXCEPT ![m] = FALSE]
    /\ inner' = [inner EXCEPT ![m] = 0]

\* the owner lets the Mutex go out of scope
DropMutex(t, m) ==
    /\ Ready(t)
    /\ m \in live
    /\ Unborrowed(m)
    /\ Destroyed(m)
    /\ ret' = NoRet
    /\ UNCHANGED mvars
    /\ UNCHANGED <<guards, pc, arg, elapsed, analysed, panicking>>
    /\ UNCHANGED wvars

\* ------------------------------------------------------ Mutex::into_inner
CallIntoInner(t, m) ==
    /\ Ready(t)
    /\ m \in live
    /\ Unborrowed(m)
    /\ pc' = [pc EXCEPT ![t] = "into_inner"]
    /\ arg' = [arg EXCEPT ![t] = m]
    /\ ret' = NoRet
    /\ UNCHANGED <<guards, elapsed, analysed, panicking>>
    /\ UNCHANGED <<mvars, hvars, wvars>>

IntoInner(t) ==
    /\ pc[t] = "into_inner"
    /\ ret' = Return(t, "into_inner", arg[t], PoisonResult(arg[t]))
    /\ Destroyed(arg[t])
    /\ pc' = [pc EXCEPT ![t] = "idle"]
    /\ arg' = [arg EXCEPT ![t] = NoMutex]
    /\ UNCHANGED mvars
    /\ UNCHANGED <<guards, elapsed, analysed, panicking>>
    /\ UNCHANGED wvars

\* --------------------------------------------------------- Mutex::get_mut
CallGetMut(t, m) ==
    /\ Ready(t)
    /\ m \in live
    /\ Unborrowed(m)
    /\ pc' = [pc EXCEPT ![t] = "get_mut"]
    /\ arg' = [arg EXCEPT ![t] = m]
    /\ ret' = NoRet
    /\ UNCHANGED <<guards, elapsed, analysed, panicking>>
    /\ UNCHANGED <<mvars, hvars, wvars>>

GetMut(t) ==
    /\ pc[t] = "get_mut"
    /\ ret' = Return(t, "get_mut", arg[t], PoisonResult(arg[t]))
    /\ pc' = [pc EXCEPT ![t] = "idle"]
    /\ arg' = [arg EXCEPT ![t] = NoMutex]
    /\ UNCHANGED <<guards, elapsed, analysed, panicking>>
    /\ UNCHANGED <<mvars, hvars, wvars>>

\* ----------------------------------------------------- Mutex::is_poisoned
IsPoisoned(t, m) ==
    /\ Ready(t)
    /\ m \in live
    /\ Shareable(m)
    /\ ret' = Return(t, "is_poisoned", m, IF poisoned[m] THEN "true" ELSE "false")
    /\ UNCHANGED <<guards, pc, arg, elapsed, analysed, panicking>>
    /\ UNCHANGED <<mvars, hvars, wvars>>

\* -------------------------------------------------------- Mutex::try_lock
CallTryLock(t, m) ==
    /\ Ready(t)
    /\ m \in live
    /\ Shareable(m)
    /\ pc' = [pc EXCEPT ![t] = "try_wl"]
    /\ arg' = [arg EXCEPT ![t] = m]
    /\ ret' = NoRet
    /\ UNCHANGED <<guards, elapsed, analysed, panicking>>
    /\ UNCHANGED <<mvars, hvars, wvars>>

\* let mut guard = self.manager.write_lock();
TryWriteLock(t) ==
    /\ pc[t] = "try_wl"
    /\ manager = NoThread
    /\ manager' = t
    /\ pc' = [pc EXCEPT ![t] = "try_try"]
    /\ UNCHANGED <<next_key, locks>>
    /\ ret' = NoRet
    /\ UNCHANGED <<guards, arg, elapsed, analysed, panicking>>
    /\ UNCHANGED <<hvars, wvars>>

TryAcquiredInverted(t) == ~try_write_lock_ok(locks[key[arg[t]]])

\* the outcome of `if representation.try_write_lock()` in try_lock()
TryAcquired(t) == try_write_lock_ok(locks[key[arg[t]]])

TryAttemptUnlocks(t) ==
    /\ pc[t] = "try_try"
    /\ LET m == arg[t]
           k == key[arg[t]]
       IN /\ locks' = [locks EXCEPT ![k] = IF TryAcquired(t) THEN try_write_lock(locks[k]) ELSE unlock(locks[k])]
          /\ IF TryAcquired(t)
             THEN /\ guards' = returned_guard(t, m)
                  /\ ret' = Return(t, "try_lock", m, PoisonResult(m))
             ELSE /\ guards' = guards
                  /\ ret' = Return(t, "try_lock", m, "WouldBlock")
    /\ pc' = [pc EXCEPT ![t] = "idle"]
    /\ arg' = [arg EXCEPT ![t] = NoMutex]
    /\ manager' = NoThread
    /\ UNCHANGED next_key
    /\ UNCHANGED <<elapsed, analysed, panicking>>
    /\ UNCHANGED <<hvars, wvars>>

TryAttemptSubscribes(t) ==
    /\ pc[t] = "try_try"
    /\ LET m == arg[t]
           k == key[arg[t]]
       IN /\ locks' = [locks EXCEPT ![k] = IF TryAcquired(t) THEN try_write_lock(locks[k]) ELSE subscribe_write(locks[k], t)]
          /\ IF TryAcquired(t)
             THEN /\ guards' = returned_guard(t, m)
                  /\ ret' = Return(t, "try_lock", m, PoisonResult(m))
             ELSE /\ guards' = guards
                  /\ ret' = Return(t, "try_lock", m, "WouldBlock")
    /\ pc' = [pc EXCEPT ![t] = "idle"]
    /\ arg' = [arg EXCEPT ![t] = NoMutex]
    /\ manager' = NoThread
    /\ UNCHANGED next_key
    /\ UNCHANGED <<elapsed, analysed, panicking>>
    /\ UNCHANGED <<hvars, wvars>>

\* let representation = guard.locks.get_mut(&self.key).unwrap();
\* if representation.try_write_lock() { the MutexGuard is built and returned,
\* tagged by is_poisoned() } else { Err(TryLockError::WouldBlock) }
\* `guard` is dropped on return.
TryAttempt(t) ==
    /\ pc[t] = "try_try"
    /\ LET m == arg[t]
           k == key[arg[t]]
       IN /\ locks' = [locks EXCEPT ![k] = try_write_lock(locks[k])]
          /\ IF TryAcquired(t)
             THEN /\ guards' = returned_guard(t, m)
                  /\ ret' = Return(t, "try_lock", m, PoisonResult(m))
             ELSE /\ guards' = guards
                  /\ ret' = Return(t, "try_lock", m, "WouldBlock")
    /\ pc' = [pc EXCEPT ![t] = "idle"]
    /\ arg' = [arg EXCEPT ![t] = NoMutex]
    /\ manager' = NoThread
    /\ UNCHANGED next_key
    /\ UNCHANGED <<elapsed, analysed, panicking>>
    /\ UNCHANGED <<hvars, wvars>>

\* ------------------------------------------------------------ Mutex::lock
\* let timeout = Duration::from_secs(1); let start = Instant::now();
CallLock(t, m) ==
    /\ Ready(t)
    /\ m \in live
    /\ Shareable(m)
    /\ pc' = [pc EXCEPT ![t] = "lock_wl"]
    /\ arg' = [arg EXCEPT ![t] = m]
    /\ elapsed' = [elapsed EXCEPT ![t] = 0]
    /\ analysed' = [analysed EXCEPT ![t] = FALSE]
    /\ ret' = NoRet
    /\ UNCHANGED <<guards, panicking>>
    /\ UNCHANGED <<mvars, hvars, wvars>>

\* loop { let mut guard = self.manager.write_lock();
LockWriteLock(t) ==
    /\ pc[t] = "lock_wl"
    /\ manager = NoThread
    /\ manager' = t
    /\ pc' = [pc EXCEPT ![t] = "lock_try"]
    /\ UNCHANGED <<next_key, locks>>
    /\ ret' = NoRet
    /\ UNCHANGED <<guards, arg, elapsed, analysed, panicking>>
    /\ UNCHANGED <<hvars, wvars>>

OverTimeoutAlways(t) == TRUE

OverTimeoutNever(t) == FALSE

\* Instant::now().duration_since(start) > timeout
OverTimeout(t) == elapsed[t] > timeout

LockAcquiredAlways(t) == TRUE

LockAcquiredOrOverTimeout(t) == try_write_lock_ok(locks[key[arg[t]]]) \/ OverTimeout(t)

LockAcquiredInverted(t) == ~try_write_lock_ok(locks[key[arg[t]]])

\* the outcome of `if representation.try_write_lock()` in lock()
LockAcquired(t) == try_write_lock_ok(locks[key[arg[t]]])

\* let representation = guard.locks.get_mut(&self.key).unwrap();
\* if representation.try_write_lock() { the MutexGuard is built and returned,
\*     tagged by is_poisoned(); `guard` is dropped on return }
\* else if Instant::now().duration_since(start) > timeout {
\*     representation.subscribe_write(); guard.analyse();  .. }
\* (otherwise `guard` is dropped at the end of the loop body).
\* analyse makes one pass over the table and does not change it.
LockAttempt(t) ==
    /\ pc[t] = "lock_try"
    /\ LET m == arg[t]
           k == key[arg[t]]
       IN IF LockAcquired(t)
          THEN /\ locks' = [locks EXCEPT ![k] = try_write_lock(locks[k])]
               /\ guards' = returned_guard(t, m)
               /\ ret' = Return(t, "lock", m, PoisonResult(m))
               /\ pc' = [pc EXCEPT ![t] = "idle"]
               /\ arg' = [arg EXCEPT ![t] = NoMutex]
               /\ elapsed' = [elapsed EXCEPT ![t] = 0]
               /\ analysed' = [analysed EXCEPT ![t] = FALSE]
               /\ manager' = NoThread
          ELSE IF OverTimeout(t)
          THEN /\ locks' = [locks EXCEPT ![k] = subscribe_write(try_write_lock(locks[k]), t)]
               /\ analysed' = [analysed EXCEPT ![t] = TRUE]
               /\ pc' = [pc EXCEPT ![t] = "lock_yield"]
               /\ ret' = NoRet
               /\ UNCHANGED <<guards, arg, elapsed, manager>>
          ELSE /\ locks' = [locks EXCEPT ![k] = try_write_lock(locks[k])]
               /\ pc' = [pc EXCEPT ![t] = "lock_wl"]
               /\ manager' = NoThread
               /\ ret' = NoRet
               /\ UNCHANGED <<guards, arg, elapsed, analysed>>
    /\ UNCHANGED next_key
    /\ UNCHANGED panicking
    /\ UNCHANGED <<hvars, wvars>>

LockYieldKeepsGuard(t) ==
    /\ pc[t] = "lock_yield"
    /\ pc' = [pc EXCEPT ![t] = "lock_try"]
    /\ ret' = NoRet
    /\ UNCHANGED <<guards, arg, elapsed, analysed, panicking>>
    /\ UNCHANGED <<mvars, hvars, wvars>>

\* std::thread::yield_now(); then `guard` is dropped at the end of the loop
\* body and the loop starts over
LockYield(t) ==
    /\ pc[t] = "lock_yield"
    /\ manager' = NoThread
    /\ pc' = [pc EXCEPT ![t] = "lock_wl"]
    /\ UNCHANGED <<next_key, locks>>
    /\ ret' = NoRet
    /\ UNCHANGED <<guards, arg, elapsed, analysed, panicking>>
    /\ UNCHANGED <<hvars, wvars>>

\* the clock read by Instant::now() advances for every pending lock() call
Tick ==
    /\ \E t \in Threads : pc[t] \in LockPcs /\ elapsed[t] <= timeout
    /\ elapsed' = [t \in Threads |->
                     IF pc[t] \in LockPcs /\ elapsed[t] <= timeout
                     THEN elapsed[t] + 1 ELSE elapsed[t]]
    /\ ret' = NoRet
    /\ UNCHANGED <<guards, pc, arg, analysed, panicking>>
    /\ UNCHANGED <<mvars, hvars, wvars>>

\* ------------------------------------------------------- MutexGuard::drop
DropStart(t, m) ==
    /\ pc[t] = "idle"
    /\ guards[t][m] > 0
    /\ pc' = [pc EXCEPT ![t] = "drop_wl"]
    /\ arg' = [arg EXCEPT ![t] = m]
    /\ ret' = NoRet
    /\ UNCHANGED <<guards, elapsed, analysed, panicking>>
    /\ UNCHANGED <<mvars, hvars, wvars>>

\* let mut guard = self.inner.manager.write_lock();
DropWriteLock(t) ==
    /\ pc[t] = "drop_wl"
    /\ manager = NoThread
    /\ manager' = t
    /\ pc' = [pc EXCEPT ![t] = "drop_unlock"]
    /\ UNCHANGED <<next_key, locks>>
    /\ ret' = NoRet
    /\ UNCHANGED <<guards, arg, elapsed, analysed, panicking>>
    /\ UNCHANGED <<hvars, wvars>>

DropUnlockSkipped(t) ==
    /\ pc[t] = "drop_unlock"
    /\ pc' = [pc EXCEPT ![t] = "drop_poison"]
    /\ ret' = NoRet
    /\ UNCHANGED <<guards, arg, elapsed, analysed, panicking>>
    /\ UNCHANGED <<mvars, hvars, wvars>>

\* guard.locks.get_mut(&self.inner.key).unwrap().unlock();
DropUnlock(t) ==
    /\ pc[t] = "drop_unlock"
    /\ LET k == key[arg[t]] IN
         locks' = [locks EXCEPT ![k] = unlock(locks[k])]
    /\ pc' = [pc EXCEPT ![t] = "drop_poison"]
    /\ UNCHANGED <<next_key, manager>>
    /\ ret' = NoRet
    /\ UNCHANGED <<guards, arg, elapsed, analysed, panicking>>
    /\ UNCHANGED <<hvars, wvars>>

DropPoisonAlways(t) ==
    /\ pc[t] = "drop_poison"
    /\ poisoned' = [poisoned EXCEPT ![arg[t]] = TRUE]
    /\ guards' = [guards EXCEPT ![t][arg[t]] = @ - 1]
    /\ manager' = NoThread
    /\ pc' = [pc EXCEPT ![t] = "idle"]
    /\ arg' = [arg EXCEPT ![t] = NoMutex]
    /\ UNCHANGED <<next_key, locks>>
    /\ UNCHANGED <<live, key, inner>>
    /\ ret' = NoRet
    /\ UNCHANGED <<elapsed, analysed, panicking>>
    /\ UNCHANGED wvars

\* if std::thread::panicking() { self.inner.poisoned = true; }
\* then `guard` is dropped and the MutexGuard is gone
DropPoison(t) ==
    /\ pc[t] = "drop_poison"
    /\ poisoned' = [poisoned EXCEPT ![arg[t]] = IF panicking[t] THEN TRUE ELSE @]
    /\ guards' = [guards EXCEPT ![t][arg[t]] = @ - 1]
    /\ manager' = NoThread
    /\ pc' = [pc EXCEPT ![t] = "idle"]
    /\ arg' = [arg EXCEPT ![t] = NoMutex]
    /\ UNCHANGED <<next_key, locks>>
    /\ UNCHANGED <<live, key, inner>>
    /\ ret' = NoRet
    /\ UNCHANGED <<elapsed, analysed, panicking>>
    /\ UNCHANGED wvars

\* ------------------------------------------------- panics of the caller
\* the thread panics between two calls and unwinds: all it does from now on
\* is to destroy the guards it holds
Panic(t) ==
    /\ Ready(t)
    /\ \E m \in Mutexes : guards[t][m] > 0
    /\ panicking' = [panicking EXCEPT ![t] = TRUE]
    /\ ret' = NoRet
    /\ UNCHANGED <<guards, pc, arg, elapsed, analysed>>
    /\ UNCHANGED <<mvars, hvars, wvars>>

\* ------------------------------------------------------------ the program
Next ==
    \/ \E t \in Threads, m \in Mutexes : NewInProgram(t, m)
    \/ \E t \in Threads, m \in Mutexes : DropMutex(t, m)
    \/ \E t \in Threads, m \in Mutexes : CallIntoInner(t, m)
    \/ \E t \in Threads : IntoInner(t)
    \/ \E t \in Threads, m \in Mutexes : CallGetMut(t, m)
    \/ \E t \in Threads : GetMut(t)
    \/ \E t \in Threads, m \in Mutexes : IsPoisoned(t, m)
    \/ \E t \in Threads, m \in Mutexes : CallTryLock(t, m)
    \/ \E t \in Threads : TryWriteLock(t)
    \/ \E t \in Threads : TryAttempt(t)
    \/ \E t \in Threads, m \in Mutexes : CallLock(t, m)
    \/ \E t \in Threads : LockWriteLock(t)
    \/ \E t \in Threads : LockAttempt(t)
    \/ \E t \in Threads : LockYield(t)
    \/ Tick
    \/ \E t \in Threads, m \in Mutexes : DropStart(t, m)
    \/ \E t \in Threads : DropWriteLock(t)
    \/ \E t \in Threads : DropUnlock(t)
    \/ \E t \in Threads : DropPoison(t)
    \/ \E t \in Threads : Panic(t)

Spec == Init /\ [][Next]_vars

\* ------------------------------------------- the increment workload
\* Threads share one Mutex created by Mutex::new(InitialValue); each runs
\* MaxCycles times: { let mut g = m.lock().unwrap(); *g = *g + 1; }
InitialValue == 0

\* the Mutex the workload runs on
Shared == 1

\* one Mutex exists, nobody uses it yet
InitShared ==
    /\ next_key = 2
    /\ locks = [k \in Keys |-> FreeLock]
    /\ manager = NoThread
    /\ live = {Shared}
    /\ key = [m \in Mutexes |-> IF m = Shared THEN 1 ELSE NoKey]
    /\ poisoned = [m \in Mutexes |-> FALSE]
    /\ inner = [m \in Mutexes |-> IF m = Shared THEN InitialValue ELSE 0]
    /\ guards = [t \in Threads |-> [m \in Mutexes |-> 0]]
    /\ pc = [t \in Threads |-> "idle"]
    /\ arg = [t \in Threads |-> NoMutex]
    /\ elapsed = [t \in Threads |-> 0]
    /\ analysed = [t \in Threads |-> FALSE]
    /\ panicking = [t \in Threads |-> FALSE]
    /\ ret = NoRet
    /\ tmp = [t \in Threads |-> 0]
    /\ wpc = [t \in Threads |-> "read"]
    /\ cycles = [t \in Threads |-> 0]

\* m.lock() of the next cycle
IncLock(t) ==
    /\ cycles[t] < MaxCycles
    /\ wpc[t] = "read"
    /\ guards[t][Shared] = 0
    /\ CallLock(t, Shared)

\* MutexGuard::deref: the value is read through the guard
IncDeref(t) ==
    /\ pc[t] = "idle"
    /\ guards[t][Shared] > 0
    /\ wpc[t] = "read"
    /\ tmp' = [tmp EXCEPT ![t] = inner[Shared]]
    /\ wpc' = [wpc EXCEPT ![t] = "write"]
    /\ ret' = NoRet
    /\ UNCHANGED cycles
    /\ UNCHANGED <<guards, pc, arg, elapsed, analysed, panicking>>
    /\ UNCHANGED <<mvars, hvars>>

\* MutexGuard::deref_mut: the incremented value is written through the guard
IncDerefMut(t) ==
    /\ pc[t] = "idle"
    /\ guards[t][Shared] > 0
    /\ wpc[t] = "write"
    /\ inner' = [inner EXCEPT ![Shared] = tmp[t] + 1]
    /\ wpc' = [wpc EXCEPT ![t] = "done"]
    /\ ret' = NoRet
    /\ UNCHANGED <<tmp, cycles>>
    /\ UNCHANGED <<guards, pc, arg, elapsed, analysed, panicking>>
    /\ UNCHANGED <<mvars, live, key, poisoned>>

\* the guard goes out of scope at the end of the cycle
IncDrop(t) ==
    /\ wpc[t] = "done"
    /\ DropStart(t, Shared)

\* the cycle is over
IncNext(t) ==
    /\ pc[t] = "idle"
    /\ wpc[t] = "done"
    /\ guards[t][Shared] = 0
    /\ cycles' = [cycles EXCEPT ![t] = @ + 1]
    /\ wpc' = [wpc EXCEPT ![t] = "read"]
    /\ ret' = NoRet
    /\ UNCHANGED tmp
    /\ UNCHANGED <<guards, pc, arg, elapsed, analysed, panicking>>
    /\ UNCHANGED <<mvars, hvars>>

NextInc ==
    \/ \E t \in Threads : IncLock(t)
    \/ \E t \in Threads : LockWriteLock(t)
    \/ \E t \in Threads : LockAttempt(t)
    \/ \E t \in Threads : LockYield(t)
    \/ Tick
    \/ \E t \in Threads : IncDeref(t)
    \/ \E t \in Threads : IncDerefMut(t)
    \/ \E t \in Threads : IncDrop(t)
    \/ \E t \in Threads : DropWriteLock(t)
    \/ \E t \in Threads : DropUnlock(t)
    \/ \E t \in Threads : DropPoison(t)
    \/ \E t \in Threads : IncNext(t)

SpecInc == InitShared /\ [][NextInc]_vars

\* ------------------------------------ creation and destruction of Mutexes
\* Threads create Mutexes (as long as the manager has identities left), try
\* to lock them, and destroy them by into_inner() or by dropping them.
NextNew ==
    \/ \E t \in Threads, m \in Mutexes : New(t, m)
    \/ \E t \in Threads, m \in Mutexes : DropMutex(t, m)
    \/ \E t \in Threads, m \in Mutexes : CallIntoInner(t, m)
    \/ \E t \in Threads : IntoInner(t)
    \/ \E t \in Threads, m \in Mutexes : CallTryLock(t, m)
    \/ \E t \in Threads : TryWriteLock(t)
    \/ \E t \in Threads : TryAttempt(t)
    \/ \E t \in Threads, m \in Mutexes : DropStart(t, m)
    \/ \E t \in Threads : DropWriteLock(t)
    \/ \E t \in Threads : DropUnlock(t)
    \/ \E t \in Threads : DropPoison(t)

SpecNew == Init /\ [][NextNew]_vars

\* --------------------------------------------------------------- fairness
\* A thread that holds the manager's internal lock is running: it makes its
\* next step.  The internal lock is a blocking lock: a thread that keeps
\* waiting for it, while it is released again and again, obtains it.
HoldingStep(t) ==
    LockAttempt(t) \/ LockYield(t) \/ TryAttempt(t) \/ DropUnlock(t) \/ DropPoison(t)

AcquireStep(t) == LockWriteLock(t) \/ TryWriteLock(t) \/ DropWriteLock(t)

\* ------------------------------------------- contention on one Mutex
\* Every thread calls lock() on the shared Mutex and drops its guards, as
\* often and whenever it likes.
NextFair ==
    \/ \E t \in Threads : CallLock(t, Shared)
    \/ \E t \in Threads : LockWriteLock(t)
    \/ \E t \in Threads : LockAttempt(t)
    \/ \E t \in Threads : LockYield(t)
    \/ Tick
    \/ \E t \in Threads : DropStart(t, Shared)
    \/ \E t \in Threads : DropWriteLock(t)
    \/ \E t \in Threads : DropUnlock(t)
    \/ \E t \in Threads : DropPoison(t)

SpecFair ==
    /\ InitShared
    /\ [][NextFair]_vars
    /\ \A t \in Threads : WF_vars(HoldingStep(t)) /\ SF_vars(AcquireStep(t))

\* ------------------------------------------------- two independent Mutexes
\* Mutex A is used by every thread but Caller: they lock it, keep its guard
\* as long as they like and poll lock() on it.  Caller uses Mutex B only.
A == 1
B == 2
Caller == 1

InitTwo ==
    /\ next_key = 3
    /\ locks = [k \in Keys |-> FreeLock]
    /\ manager = NoThread
    /\ live = {A, B}
    /\ key = [m \in Mutexes |-> IF m \in {A, B} THEN m ELSE NoKey]
    /\ poisoned = [m \in Mutexes |-> FALSE]
    /\ inner = [m \in Mutexes |-> 0]
    /\ guards = [t \in Threads |-> [m \in Mutexes |-> 0]]
    /\ pc = [t \in Threads |-> "idle"]
    /\ arg = [t \in Threads |-> NoMutex]
    /\ elapsed = [t \in Threads |-> 0]
    /\ analysed = [t \in Threads |-> FALSE]
    /\ panicking = [t \in Threads |-> FALSE]
    /\ ret = NoRet
    /\ tmp = [t \in Threads |-> 0]
    /\ wpc = [t \in Threads |-> "read"]
    /\ cycles = [t \in Threads |-> 0]

OtherLocksA(t) == t # Caller /\ CallLock(t, A)

OtherDropsA(t) == t # Caller /\ DropStart(t, A)

CallerLocksB == guards[Caller][B] = 0 /\ CallLock(Caller, B)

CallerTriesB == guards[Caller][B] = 0 /\ CallTryLock(Caller, B)

CallerDropsB == DropStart(Caller, B)

NextIndep ==
    \/ \E t \in Threads : OtherLocksA(t)
    \/ \E t \in Threads : OtherDropsA(t)
    \/ CallerLocksB
    \/ CallerTriesB
    \/ CallerDropsB
    \/ \E t \in Threads : LockWriteLock(t)
    \/ \E t \in Threads : LockAttempt(t)
    \/ \E t \in Threads : LockYield(t)
    \/ \E t \in Threads : TryWriteLock(t)
    \/ \E t \in Threads : TryAttempt(t)
    \/ Tick
    \/ \E t \in Threads : DropWriteLock(t)
    \/ \E t \in Threads : DropUnlock(t)
    \/ \E t \in Threads : DropPoison(t)

SpecIndep ==
    /\ InitTwo
    /\ [][NextIndep]_vars
    /\ \A t \in Threads : WF_vars(HoldingStep(t)) /\ SF_vars(AcquireStep(t))

\* ------------------------------------------------------------ properties
\* the status of the table entry of Mutex m
StatusOf(m) == locks[key[m]].status

\* thread t takes a step out of position p
Leaves(t, p) == pc[t] = p /\ pc'[t] # p

\* C1  Mutual exclusion: in every reachable state at most one MutexGuard of
\* each Mutex exists, whatever the interleaving of lock(), try_lock() and drops.
MutualExclusion == \A m \in Mutexes : GuardCount(m) <= 1

\* a guard of m exists while another thread makes its attempt on m
MutualExclusionWitness ==
    \E m \in Mutexes, t \in Threads, u \in Threads :
        t # u /\ guards[t][m] = 1 /\ arg[u] = m /\ pc[u] \in {"lock_try", "try_try"}

\* C3  Poisoning propagation: a guard destroyed by a panicking thread sets the
\* flag of its Mutex; the flag of a Mutex is never reset; and every lock(),
\* try_lock() that obtains the guard, get_mut() and into_inner() that returns
\* while the flag is set reports Poisoned.
PoisoningPropagates ==
    [][ /\ \A t \in Threads :
             (Leaves(t, "drop_poison") /\ panicking[t]) => poisoned'[arg[t]]
        /\ \A m \in Mutexes :
             (poisoned[m] /\ m \in live /\ m \in live' /\ key'[m] = key[m])
                 => poisoned'[m]
        /\ (/\ ret'.op \in {"lock", "try_lock", "get_mut", "into_inner"}
            /\ ret'.val # "WouldBlock"
            /\ poisoned[ret'.m])
                 => ret'.val = "Poisoned"
      ]_vars

\* a lock() has returned Poisoned
PoisoningPropagatesWitness ==
    /\ ret.op = "lock"
    /\ ret.val = "Poisoned"
    /\ poisoned[ret.m]

\* C4  try_lock() makes one attempt and returns: WouldBlock exactly when the
\* status is Held at that moment (also when the caller itself holds the
\* guard), the guard when the status is Free.
TryLockBusyIffHeld ==
    [][ \A t \in Threads :
          Leaves(t, "try_try") =>
            /\ pc'[t] = "idle"
            /\ ret'.op = "try_lock" /\ ret'.t = t /\ ret'.m = arg[t]
            /\ (StatusOf(arg[t]) = "Held") <=> (ret'.val = "WouldBlock")
            /\ (StatusOf(arg[t]) = "Held") => guards' = guards
            /\ (StatusOf(arg[t]) = "Free")
                 => /\ ret'.val \in {"Ok", "Poisoned"}
                    /\ guards'[t][arg[t]] = guards[t][arg[t]] + 1
                    /\ locks'[key[arg[t]]].status = "Held"
      ]_vars

\* try_lock() has returned WouldBlock to the thread that holds the guard
TryLockBusyIffHeldWitness ==
    /\ ret.op = "try_lock"
    /\ ret.val = "WouldBlock"
    /\ guards[ret.t][ret.m] = 1

\* C5  Poisoning is advisory: on a poisoned Mutex whose status is Free, lock()
\* and try_lock() still make the Free -> Held transition and return the guard
\* (tagged Poisoned); get_mut() and into_inner() on a poisoned Mutex still
\* return the value (tagged Poisoned).
PoisoningIsAdvisory ==
    [][ \A t \in Threads :
          /\ ((Leaves(t, "lock_try") \/ Leaves(t, "try_try"))
                 /\ poisoned[arg[t]] /\ StatusOf(arg[t]) = "Free")
               => /\ locks'[key[arg[t]]].status = "Held"
                  /\ guards'[t][arg[t]] = guards[t][arg[t]] + 1
                  /\ pc'[t] = "idle"
                  /\ ret'.t = t /\ ret'.m = arg[t] /\ ret'.val = "Poisoned"
          /\ ((Leaves(t, "get_mut") \/ Leaves(t, "into_inner")) /\ poisoned[arg[t]])
               => /\ pc'[t] = "idle"
                  /\ ret'.t = t /\ ret'.m = arg[t] /\ ret'.val = "Poisoned"
      ]_vars

\* try_lock() on a poisoned Mutex has returned the guard
PoisoningIsAdvisoryWitness ==
    /\ ret.op = "try_lock"
    /\ ret.val = "Poisoned"
    /\ guards[ret.t][ret.m] = 1
    /\ StatusOf(ret.m) = "Held"

\* C6  lock() returns only with the guard: every return of lock() carries a
\* guard, the status is then Held and the caller holds the only guard; an
\* attempt that finds the status Held, before or after the threshold, stays
\* inside lock().
LockReturnsOnlyWithGuard ==
    [][ \A t \in Threads, m \in Mutexes :
          /\ (pc[t] \in LockPcs /\ arg[t] = m /\ pc'[t] \notin LockPcs)
               => /\ pc'[t] = "idle"
                  /\ ret' \in {Return(t, "lock", m, "Ok"), Return(t, "lock", m, "Poisoned")}
                  /\ locks'[key[m]].status = "Held"
                  /\ guards'[t][m] = 1
                  /\ GuardCount(m)' = 1
          /\ (Leaves(t, "lock_try") /\ arg[t] = m /\ StatusOf(m) = "Held")
               => /\ pc'[t] \in {"lock_wl", "lock_yield"}
                  /\ guards' = guards
                  /\ ret' = NoRet
      ]_vars

\* a lock() call is still retrying after the threshold, the guard being held
\* by another thread
LockReturnsOnlyWithGuardWitness ==
    \E t \in Threads, u \in Threads :
        /\ t # u
        /\ pc[t] = "lock_wl" /\ analysed[t] /\ elapsed[t] > timeout
        /\ guards[u][arg[t]] = 1

\* C9  In lock() the manager's internal lock is released before the thread
\* yields: no thread is at its yield step while it holds the internal lock.
YieldsWithoutManagerLock ==
    \A t \in Threads : pc[t] = "lock_yield" => manager # t

\* C10  No lost updates: when every thread has made its MaxCycles
\* read-increment-write cycles, each inside its own lock()/guard-drop pair on
\* the shared Mutex, the value is the initial value plus the number of cycles.
NoLostUpdates ==
    (\A t \in Threads : cycles[t] = MaxCycles)
        => inner[Shared] = InitialValue + NumThreads * MaxCycles

\* every thread has finished its cycles
NoLostUpdatesWitness == \A t \in Threads : cycles[t] = MaxCycles

\* C8  Identity uniqueness: any two Mutexes that exist have different keys,
\* also after other Mutexes have been destroyed by into_inner() or by drop.
IdentityUniqueness ==
    \A m \in live, n \in live : m # n => key[m] # key[n]

\* two Mutexes exist, created after another one was destroyed
IdentityUniquenessWitness ==
    /\ Cardinality(live) = 2
    /\ next_key > 3
    /\ \E m \in live : guards[1][m] = 1

\* every guard of the shared Mutex is eventually dropped
EveryGuardDropped ==
    \A u \in Threads : [](guards[u][Shared] > 0 => <>(guards[u][Shared] = 0))

\* the last step was the return of a lock() of another thread than t
OtherObtains(t) == ret.op = "lock" /\ ret.t # t

\* C2 (as stated)  Eventual acquisition: if every guard of the Mutex is
\* eventually dropped, every call of lock() on it eventually returns.
EventualAcquisition ==
    EveryGuardDropped
        => \A t \in Threads : [](pc[t] \in LockPcs => <>(pc[t] = "idle"))

\* C2 (amended)  If every guard of the Mutex is eventually dropped and, from
\* some point on, no other thread obtains the guard, then every call of
\* lock() eventually returns.
EventualAcquisitionUnlessOvertaken ==
    \A t \in Threads :
        (EveryGuardDropped /\ <>[](~OtherObtains(t)))
            => [](pc[t] \in LockPcs => <>(pc[t] = "idle"))

\* a lock() call returns the guard, dropped by its previous holder, while
\* the lock() call of another thread is pending past the threshold
EventualAcquisitionWitness ==
    \E t \in Threads, u \in Threads :
        /\ t # u
        /\ ret.op = "lock" /\ ret.t = t /\ guards[t][Shared] = 1
        /\ pc[u] \in LockPcs /\ arg[u] = Shared /\ elapsed[u] > timeout
        /\ analysed[u]

PoisonedBeforeFree ==
    \A t \in Threads :
        (pc[t] = "drop_poison" /\ panicking[t] /\ StatusOf(arg[t]) = "Free")
            => poisoned[arg[t]]

\* the waiter set of the table entry of Mutex m
WaitersOf(m) == locks[key[m]].waiters

\* C12  Waiter-set invariant: a thread is added to the waiters of a Mutex only
\* in a step in which the status of that Mutex is Held, the drop of a guard
\* empties the waiters of its Mutex, and in every state an entry whose status
\* is Free has no waiters.
WaiterSetInvariant ==
    /\ [](\A k \in Keys : locks[k].status = "Free" => locks[k].waiters = {})
    /\ [][ /\ \A k \in Keys, t \in Threads :
                (t \notin locks[k].waiters /\ t \in locks'[k].waiters)
                    => /\ locks[k].status = "Held"
                       /\ locks'[k].status = "Held"
                       /\ Leaves(t, "lock_try") /\ key[arg[t]] = k
           /\ \A t \in Threads :
                Leaves(t, "drop_unlock") => locks'[key[arg[t]]].waiters = {}
         ]_vars

\* the drop of a guard has just emptied the waiter set in which the thread
\* polling lock() on the Mutex had registered
WaiterSetInvariantWitness ==
    \E t \in Threads, u \in Threads :
        /\ t # u
        /\ pc[t] = "drop_poison" /\ WaitersOf(arg[t]) = {}
        /\ pc[u] \in LockPcs /\ arg[u] = arg[t] /\ analysed[u]

\* C13  In lock(), an attempt that fails while the elapsed time is at most the
\* threshold neither registers the thread as a waiter, nor invokes analyse,
\* nor yields: it releases the internal lock and retries.  A thread is
\* registered and analyse is invoked only by a failed attempt made after the
\* threshold has been exceeded.
TightPollUnderThreshold ==
    [][ \A t \in Threads :
          /\ (Leaves(t, "lock_try") /\ StatusOf(arg[t]) = "Held" /\ elapsed[t] <= timeout)
               => /\ locks' = locks
                  /\ analysed' = analysed
                  /\ pc'[t] = "lock_wl"
                  /\ manager' = NoThread
          /\ ((\E k \in Keys : t \notin locks[k].waiters /\ t \in locks'[k].waiters)
                \/ (~analysed[t] /\ analysed'[t])
                \/ (pc[t] # "lock_yield" /\ pc'[t] = "lock_yield"))
               => /\ Leaves(t, "lock_try")
                  /\ StatusOf(arg[t]) = "Held"
                  /\ elapsed[t] > timeout
      ]_vars

\* an attempt is being made exactly at the threshold on a Mutex held by
\* another thread, by a call that has not yet registered nor analysed
TightPollUnderThresholdWitness ==
    \E t \in Threads, u \in Threads :
        /\ t # u
        /\ pc[t] = "lock_try" /\ elapsed[t] = timeout
        /\ guards[u][arg[t]] = 1 /\ StatusOf(arg[t]) = "Held"
        /\ ~analysed[t] /\ t \notin WaitersOf(arg[t])

\* C15  The status of a Mutex goes from Held to Free only in the step of
\* MutexGuard::drop that unlocks the entry of the guard's Mutex; every drop
\* makes this transition once and then removes its guard, and a guard is
\* removed only so.  lock(), try_lock(), get_mut(), is_poisoned() and
\* into_inner() never set a status to Free.
HeldToFreeOnlyByDrop ==
    [][ /\ \A k \in Keys :
             (locks[k].status = "Held" /\ locks'[k].status = "Free")
                 => \E t \in Threads :
                       /\ Leaves(t, "drop_unlock")
                       /\ key[arg[t]] = k
                       /\ guards[t][arg[t]] = 1
        /\ \A t \in Threads :
             /\ Leaves(t, "drop_unlock")
                  => /\ StatusOf(arg[t]) = "Held"
                     /\ locks'[key[arg[t]]].status = "Free"
                     /\ pc'[t] = "drop_poison"
                     /\ guards' = guards
             /\ Leaves(t, "drop_poison")
                  => /\ locks' = locks
                     /\ guards'[t][arg[t]] = guards[t][arg[t]] - 1
                     /\ pc'[t] = "idle"
             /\ \A m \in Mutexes :
                  guards'[t][m] < guards[t][m]
                      => Leaves(t, "drop_poison") /\ arg[t] = m
      ]_vars

\* a drop has set the status to Free and is about to remove its guard, while
\* a try_lock() of another thread on the same Mutex is in progress
HeldToFreeOnlyByDropWitness ==
    \E t \in Threads, u \in Threads :
        /\ t # u
        /\ pc[t] = "drop_poison" /\ guards[t][arg[t]] = 1
        /\ StatusOf(arg[t]) = "Free"
        /\ pc[u] = "try_wl" /\ arg[u] = arg[t]

\* C16  Status/guard correspondence: in every state in which no thread holds
\* the manager's internal lock, the status of a Mutex is Held if and only if
\* a guard of it exists; a Mutex just created is Free and not poisoned.
StatusGuardCorrespondence ==
    /\ [](manager = NoThread
            => \A m \in live : (StatusOf(m) = "Held") <=> (GuardCount(m) = 1))
    /\ [][ \A m \in Mutexes :
             (m \notin live /\ m \in live')
                 => /\ locks'[key'[m]] = FreeLock
                    /\ ~poisoned'[m]
                    /\ GuardCount(m)' = 0
         ]_vars

\* a Mutex whose guard was destroyed by a panicking thread is Held again by
\* the guard a lock() has returned, the internal lock being free
StatusGuardCorrespondenceWitness ==
    \E m \in live :
        /\ manager = NoThread
        /\ poisoned[m]
        /\ StatusOf(m) = "Held" /\ GuardCount(m) = 1
        /\ ret.op = "lock" /\ ret.m = m

\* C17  A try_lock() that fails with WouldBlock is a no-op on shared state:
\* none of its steps changes the status or the waiters of any Mutex, a
\* poisoned flag, a protected value or the guards, nor invokes analyse.
FailedTryLockIsNoOp ==
    [][ \A t \in Threads :
          ((pc[t] # pc'[t] /\ pc'[t] \in TryPcs)
              \/ (Leaves(t, "try_try") /\ StatusOf(arg[t]) = "Held"))
            => /\ locks' = locks
               /\ poisoned' = poisoned
               /\ inner' = inner
               /\ guards' = guards
               /\ analysed' = analysed
               /\ \A u \in Threads : pc'[u] = "lock_yield" => pc[u] = "lock_yield"
               /\ Leaves(t, "try_try") => ret' = Return(t, "try_lock", arg[t], "WouldBlock")
      ]_vars

\* try_lock() has returned WouldBlock on a Mutex that has a waiter registered
FailedTryLockIsNoOpWitness ==
    /\ ret.op = "try_lock"
    /\ ret.val = "WouldBlock"
    /\ StatusOf(ret.m) = "Held"
    /\ WaitersOf(ret.m) # {}

\* C20  The lock is not reentrant: a thread that calls lock() on a Mutex of
\* which it holds the guard stays inside lock(): each attempt fails, and an
\* attempt made after the threshold records the thread as a waiter of the
\* Mutex it holds itself.
NotReentrant ==
    [][ \A t \in Threads :
          (pc[t] \in LockPcs /\ guards[t][arg[t]] > 0)
            => /\ pc'[t] \in LockPcs
               /\ arg'[t] = arg[t]
               /\ guards'[t] = guards[t]
               /\ ~(ret'.op = "lock" /\ ret'.t = t)
               /\ Leaves(t, "lock_try")
                    => /\ pc'[t] \in {"lock_wl", "lock_yield"}
                       /\ elapsed[t] > timeout
                            => /\ t \in locks'[key[arg[t]]].waiters
                               /\ analysed'[t]
                               /\ pc'[t] = "lock_yield"
      ]_vars

\* a thread past the threshold polls lock() on the Mutex it holds the guard
\* of, and is among the waiters of that Mutex
NotReentrantWitness ==
    \E t \in Threads :
        /\ pc[t] = "lock_wl" /\ elapsed[t] > timeout
        /\ guards[t][arg[t]] = 1
        /\ t \in WaitersOf(arg[t])

\* ------------------------------------------- poisoning with two Mutexes
\* Two Mutexes exist.  Every thread takes their guards by try_lock(), drops
\* them, reads is_poisoned(), and may panic while it holds a guard.
NextPoison ==
    \/ \E t \in Threads, m \in Mutexes : CallTryLock(t, m)
    \/ \E t \in Threads : TryWriteLock(t)
    \/ \E t \in Threads : TryAttempt(t)
    \/ \E t \in Threads, m \in Mutexes : IsPoisoned(t, m)
    \/ \E t \in Threads, m \in Mutexes : DropStart(t, m)
    \/ \E t \in Threads : DropWriteLock(t)
    \/ \E t \in Threads : DropUnlock(t)
    \/ \E t \in Threads : DropPoison(t)
    \/ \E t \in Threads : Panic(t)

SpecPoison == InitTwo /\ [][NextPoison]_vars

\* C18  Poisoning has a single cause: the poisoned flag of a Mutex is false
\* when the Mutex is created and changes only to true, and only in the step
\* in which a panicking thread finishes the destruction of a guard of that
\* Mutex; the destruction of a guard by a thread that is not panicking, and
\* every step on another Mutex, leave the flag as it is.
PoisoningSingleCause ==
    /\ \A m \in Mutexes : ~poisoned[m]
    /\ [][ /\ \A m \in Mutexes :
                poisoned'[m] # poisoned[m]
                    => /\ poisoned'[m]
                       /\ \E t \in Threads :
                             /\ Leaves(t, "drop_poison")
                             /\ arg[t] = m
                             /\ panicking[t]
           /\ \A t \in Threads :
                (Leaves(t, "drop_poison") /\ ~panicking[t]) => poisoned' = poisoned
         ]_vars

\* one Mutex has been poisoned by a panicking thread; another thread, not
\* panicking, finishes the destruction of its guard of the other Mutex, which
\* is not poisoned
PoisoningSingleCauseWitness ==
    \E t \in Threads, u \in Threads :
        /\ t # u
        /\ panicking[t] /\ guards[t][A] = 0 /\ poisoned[A]
        /\ ~panicking[u] /\ pc[u] = "drop_poison" /\ arg[u] = B
        /\ ~poisoned[B]

\* ------------------------------------------- contention on two Mutexes
\* Two Mutexes exist.  Every thread calls lock() on either of them and drops
\* its guards, as often and whenever it likes.
NextRelease ==
    \/ \E t \in Threads, m \in Mutexes : CallLock(t, m)
    \/ \E t \in Threads : LockWriteLock(t)
    \/ \E t \in Threads : LockAttempt(t)
    \/ \E t \in Threads : LockYield(t)
    \/ Tick
    \/ \E t \in Threads, m \in Mutexes : DropStart(t, m)
    \/ \E t \in Threads : DropWriteLock(t)
    \/ \E t \in Threads : DropUnlock(t)
    \/ \E t \in Threads : DropPoison(t)

SpecRelease ==
    /\ InitTwo
    /\ [][NextRelease]_vars
    /\ \A t \in Threads : WF_vars(HoldingStep(t)) /\ SF_vars(AcquireStep(t))

\* thread t is blocked in write_lock(): another thread holds the internal lock
WaitsForManager(t) ==
    pc[t] \in {"lock_wl", "try_wl", "drop_wl"} /\ manager # NoThread

Holder == 1
Waiter == 2

InitHeld ==
    /\ next_key = 2
    /\ locks = [k \in Keys |-> IF k = 1 THEN [status |-> "Held", waiters |-> {}]
                                         ELSE FreeLock]
    /\ manager = NoThread
    /\ live = {Shared}
    /\ key = [m \in Mutexes |-> IF m = Shared THEN 1 ELSE NoKey]
    /\ poisoned = [m \in Mutexes |-> FALSE]
    /\ inner = [m \in Mutexes |-> 0]
    /\ guards = [t \in Threads |-> [m \in Mutexes |->
                    IF t = Holder /\ m = Shared THEN 1 ELSE 0]]
    /\ pc = [t \in Threads |-> "idle"]
    /\ arg = [t \in Threads |-> NoMutex]
    /\ elapsed = [t \in Threads |-> 0]
    /\ analysed = [t \in Threads |-> FALSE]
    /\ panicking = [t \in Threads |-> FALSE]
    /\ ret = Return(Holder, "lock", Shared, "Ok")
    /\ tmp = [t \in Threads |-> 0]
    /\ wpc = [t \in Threads |-> "read"]
    /\ cycles = [t \in Threads |-> 0]

WaiterLocks == guards[Waiter][Shared] = 0 /\ CallLock(Waiter, Shared)

WaiterTries == guards[Waiter][Shared] = 0 /\ CallTryLock(Waiter, Shared)

WaiterDrops == DropStart(Waiter, Shared)

HolderDrops == DropStart(Holder, Shared)

HolderPanics == Panic(Holder)

NextHeld ==
    \/ WaiterLocks
    \/ WaiterTries
    \/ WaiterDrops
    \/ HolderDrops
    \/ HolderPanics
    \/ \E t \in Threads : LockWriteLock(t)
    \/ \E t \in Threads : LockAttempt(t)
    \/ \E t \in Threads : LockYield(t)
    \/ \E t \in Threads : TryWriteLock(t)
    \/ \E t \in Threads : TryAttempt(t)
    \/ Tick
    \/ \E t \in Threads : DropWriteLock(t)
    \/ \E t \in Threads : DropUnlock(t)
    \/ \E t \in Threads : DropPoison(t)

SpecHeld ==
    /\ InitHeld
    /\ [][NextHeld]_vars
    /\ \A t \in Threads : WF_vars(HoldingStep(t)) /\ SF_vars(AcquireStep(t))

\* Waiter's lock() returns only after Holder's guard is gone, and does return
\* once it is gone
ReturnsAfterDrop ==
    /\ [][ (pc[Waiter] \in LockPcs /\ pc'[Waiter] \notin LockPcs)
              => /\ guards[Holder][Shared] = 0
                 /\ pc[Holder] = "idle"
                 /\ guards'[Waiter][Shared] = 1
         ]_vars
    /\ (pc[Waiter] \in LockPcs /\ guards[Holder][Shared] = 0) ~> (pc[Waiter] = "idle")

\* C14 (as stated)  If Holder keeps the guard for longer than the threshold
\* while Waiter is inside lock() on the same Mutex all that time, then Waiter
\* has registered as a waiter and invoked analyse when Holder releases the
\* Mutex, and Waiter's lock() returns after Holder's guard is dropped.
AnalysedWhenHeldPastThreshold ==
    /\ [][ (Leaves(Holder, "drop_unlock") /\ pc[Waiter] \in LockPcs
                /\ elapsed[Waiter] > timeout)
              => /\ analysed[Waiter]
                 /\ Waiter \in WaitersOf(Shared)
         ]_vars
    /\ ReturnsAfterDrop

\* C14 (amended)  Every attempt that Waiter makes after the threshold while
\* Holder's guard exists registers Waiter and invokes analyse, and the call
\* remembers it until it returns; Waiter's lock() returns after Holder's
\* guard is dropped.
AnalysedWhenAttemptedPastThreshold ==
    /\ [][ /\ (Leaves(Waiter, "lock_try") /\ guards[Holder][Shared] = 1
                  /\ elapsed[Waiter] > timeout)
                => /\ analysed'[Waiter]
                   /\ Waiter \in locks'[key[Shared]].waiters
                   /\ pc'[Waiter] = "lock_yield"
           /\ (analysed[Waiter] /\ pc'[Waiter] \in LockPcs) => analysed'[Waiter]
           /\ (Waiter \in WaitersOf(Shared) /\ ~Leaves(Holder, "drop_unlock")
                  /\ guards[Holder][Shared] = 1)
                => Waiter \in locks'[key[Shared]].waiters
         ]_vars
    /\ ReturnsAfterDrop

\* Holder releases the Mutex after Waiter, inside lock() for longer than the
\* threshold, has registered and invoked analyse
AnalysedWhenAttemptedPastThresholdWitness ==
    /\ pc[Holder] = "drop_unlock" /\ arg[Holder] = Shared
    /\ pc[Waiter] = "lock_wl" /\ elapsed[Waiter] > timeout
    /\ analysed[Waiter]
    /\ Waiter \in WaitersOf(Shared)

====
